---------------------------- MODULE Spec2Model ----------------------------
(***************************************************************************)
(* A model of the ant-colony image segmentation program (ant-image-seg):   *)
(*   - AntColonyRules::new            (image_ants.rs)                      *)
(*   - Ant::spawn / Ant::run          (image_ants.rs)                      *)
(*   - create_and_run_ants, run_colony_step (image_ants.rs)                *)
(*   - contour_segmententation, extract_edges (segment_generation.rs)      *)
(*   - extract_segments, fill_connected (image_arithmetic)                 *)
(*   - the Pareto archive of attempts (pareto_pheromones.rs, main.rs)      *)
(*                                                                         *)
(* Pheromone intensities are f32 in the program.  In the colony model an   *)
(* intensity is the integer n standing for n * 2^-27, and every addition   *)
(* rounds to 24 significant bits, ties to even, as IEEE 754 binary32 does. *)
(***************************************************************************)
EXTENDS Integers, Sequences, FiniteSets, TLC

VARIABLES
    \* AntColonyRules::new
    new_args, new_result,
    \* the environment of a walk and of a colony step
    img, rules, pheromones, rng,
    \* Ant::run
    ant,
    \* run_colony_step
    pc, spawn_i, ants_left, threads, workers, total_visited,
    pre_pheromones, pre_rng, global_calls,
    \* contour_segmententation / extract_segments / fill_connected
    seg_pheromones, threshold, contour, p, segments, queued, filled, seg_pc,
    fill_color, original_color,
    \* the Pareto archive and the attempt loop of main
    attempts, inserted,
    main_pc, step, steps_run, soft_timeout, elapsed,
    \* color_distances::euclidean_squared
    overflow_checks, dist_a, dist_b, dist_result

rulesVars == <<new_args, new_result>>
envVars == <<img, rules, pheromones, rng>>
antVars == <<ant>>
colonyVars == <<pc, spawn_i, ants_left, threads, workers, total_visited,
                pre_pheromones, pre_rng, global_calls>>
segVars == <<seg_pheromones, threshold, contour, p, segments, queued, filled, seg_pc,
             fill_color, original_color>>
distVars == <<overflow_checks, dist_a, dist_b, dist_result>>
paretoVars == <<attempts, inserted, main_pc, step, steps_run, soft_timeout, elapsed,
               distVars>>
vars == <<rulesVars, envVars, antVars, colonyVars, segVars, paretoVars>>

None == "None"

(***************************************************************************)
(* Bounds of the model.                                                    *)
(***************************************************************************)
MaxLayers == 3          \* policy arrays handed to AntColonyRules::new
MaxChannels == 4        \* entries of one policy array
MaxSteps == 2           \* max_ant_steps of a walk
MaxAnts == 3            \* ants_per_global_update
MaxPar == 3             \* requested parallelity
MaxSegWidth == 3        \* width of a contour image given to extract_segments
MaxHot == 2             \* pixels of a channel set with non-zero pheromone
MaxInserts == 3         \* attempts pushed to the archive
MaxShardAnts == 6       \* ants_per_global_update when only the shards are computed
MaxShardPar == 4        \* requested parallelity when only the shards are computed
MaxAttempts == 2        \* attempts started by the attempt loop
MaxClock == 2           \* seconds the clock can show, and the largest soft timeout
MaxShades == 2          \* values of a colour channel taken from each end of 0..255

(***************************************************************************)
(* Sequences and sets.                                                     *)
(***************************************************************************)
RECURSIVE SumSeq(_)
SumSeq(s) == IF s = <<>> THEN 0 ELSE Head(s) + SumSeq(Tail(s))

RECURSIVE UnionSeq(_)
UnionSeq(s) == IF s = <<>> THEN {} ELSE Head(s) \cup UnionSeq(Tail(s))

Min(a, b) == IF a <= b THEN a ELSE b
Max(a, b) == IF a >= b THEN a ELSE b
Abs(a) == IF a < 0 THEN -a ELSE a

\* floor of the square root
RECURSIVE ISqrtFrom(_, _)
ISqrtFrom(n, r) == IF (r + 1) * (r + 1) > n THEN r ELSE ISqrtFrom(n, r + 1)
ISqrt(n) == ISqrtFrom(n, 0)

(***************************************************************************)
(* f32 arithmetic on intensities in units of 2^-27.                        *)
(***************************************************************************)
F32One == 2^27
\* 0.1f32 = 0x3DCCCCCD = 13421773 * 2^-27
Tenth == 13421773

RECURSIVE Ulp(_)
Ulp(n) == IF n < 2^24 THEN 1 ELSE 2 * Ulp(n \div 2)

\* round to nearest, ties to even, at 24 significant bits
RoundF32(n) ==
    LET q == Ulp(n)
        r == n % q
        lo == n - r
    IN  IF 2 * r < q THEN lo
        ELSE IF 2 * r > q THEN lo + q
        ELSE IF (lo \div q) % 2 = 0 THEN lo ELSE lo + q

\* f32 `+`
F32Add(a, b) == RoundF32(a + b)

(***************************************************************************)
(* Geometry (image_arithmetic/types.rs).  A point is <<x, y>>.             *)
(***************************************************************************)
PointsOf(w, h) == (0 .. w - 1) \X (0 .. h - 1)

neighbourhood_directions ==
    << <<1, 0>>, <<-1, 0>>, <<0, -1>>, <<0, 1>>,
       <<1, -1>>, <<1, 1>>, <<-1, 1>>, <<-1, -1>> >>

iterate_neighbourhood(pt) ==
    [i \in 1 .. 8 |-> <<pt[1] + neighbourhood_directions[i][1],
                        pt[2] + neighbourhood_directions[i][2]>>]

is_within_rectangle(pt, a, b) ==
    /\ pt[1] >= Min(a[1], b[1]) /\ pt[1] <= Max(a[1], b[1])
    /\ pt[2] >= Min(a[2], b[2]) /\ pt[2] <= Max(a[2], b[2])

euclidean_squared_distance(a, b) ==
    (b[1] - a[1]) * (b[1] - a[1]) + (b[2] - a[2]) * (b[2] - a[2])

\* Point::euclidean_distance in sixteenths, rounded down
euclidean_distance16(a, b) == ISqrt(256 * euclidean_squared_distance(a, b))

\* color_distances::manhattan on <<r, g, b>>
manhattan(a, b) == Abs(b[1] - a[1]) + Abs(b[2] - a[2]) + Abs(b[3] - a[3])

(***************************************************************************)
(* The pseudo-random stream.  A stream is its state, a number below        *)
(* RngMod; one draw advances it with a full-period congruence.  Seeding a  *)
(* child stream draws once from the parent.                                *)
(***************************************************************************)
RngMod == 2^4

NextRng(s) == (5 * s + 3) % RngMod

\* rng.gen_range(0..n): one draw
GenRange(s, n) == [value |-> (NextRng(s) * n) \div RngMod, rng |-> NextRng(s)]

\* a seeding that leaves the parent stream where it was
FromRngNoAdvance(s) == [child |-> (7 * NextRng(s) + 1) % RngMod, rng |-> s]

\* CR::from_rng(&mut parent)
FromRng(s) == [child |-> (7 * NextRng(s) + 1) % RngMod, rng |-> NextRng(s)]


(***************************************************************************)
(* AntColonyRules::new (image_ants.rs 90-131).                             *)
(* args.pheromone_functions is a sequence of policy arrays, each a         *)
(* sequence of None or a policy name; args.parallelity is an Option, <<>>  *)
(* or <<n>>; args.available is what thread::available_parallelism()        *)
(* yields, <<n>> or <<>> for its Err.                                      *)
(***************************************************************************)
Err(msg) == [ok |-> FALSE, err |-> msg]
Ok(v) == [ok |-> TRUE, rules |-> v]

\* `while pheromone_functions.len() < 2 { ... insert(0, substitute) }`
RECURSIVE PadLayers(_, _)
PadLayers(layers, channels) ==
    IF Len(layers) < 2
    THEN PadLayers(<<[i \in 1 .. channels |-> None]>> \o layers, channels)
    ELSE layers

\* lines 116-120
ResolveParallelity(requested, available, ants_per_global_update) ==
    LET par == IF requested # <<>> THEN requested[1]
               ELSE IF available = <<>> THEN 1 ELSE available[1]
    IN  IF par > ants_per_global_update THEN 1 ELSE par

\* a constructor that skips the test of the array lengths
AntColonyRulesNewNoLengthCheck(args) ==
    LET pf == args.pheromone_functions
        pheromone_channels == IF Len(pf) > 0 THEN Len(pf[1]) ELSE 0
    IN  IF pheromone_channels <= 0 THEN Err("no pheromones")
        ELSE IF Len(pf) > 2 THEN Err("extra pheromone functions")
        ELSE LET padded == PadLayers(pf, pheromone_channels)
             IN  Ok([max_ant_steps |-> args.max_ant_steps,
                     ants_per_global_update |-> args.ants_per_global_update,
                     ants_return |-> args.ants_return,
                     parallelity |-> ResolveParallelity(args.parallelity, args.available,
                                                        args.ants_per_global_update),
                     global_update_func |-> args.global_update_func,
                     local_update_funcs |-> padded[2],
                     initialization_funcs |-> padded[1]])

AntColonyRulesNew(args) ==
    LET pf == args.pheromone_functions
        pheromone_channels == IF Len(pf) > 0 THEN Len(pf[1]) ELSE 0
    IN  IF pheromone_channels <= 0 THEN Err("no pheromones")
        ELSE IF Len(pf) > 2 THEN Err("extra pheromone functions")
        ELSE IF \E i \in 1 .. Len(pf) : Len(pf[i]) # pheromone_channels
        THEN Err("unequal amount of pheromone functions")
        ELSE LET padded == PadLayers(pf, pheromone_channels)
             IN  Ok([max_ant_steps |-> args.max_ant_steps,
                     ants_per_global_update |-> args.ants_per_global_update,
                     ants_return |-> args.ants_return,
                     parallelity |-> ResolveParallelity(args.parallelity, args.available,
                                                        args.ants_per_global_update),
                     global_update_func |-> args.global_update_func,
                     local_update_funcs |-> padded[2],
                     initialization_funcs |-> padded[1]])

\* AntColonyRules::channels
channels(r) == Len(r.initialization_funcs)

\* The policy arrays tried: every length up to MaxChannels, all None or all
\* the deposit policy.
PolicyArrays ==
    {[i \in 1 .. n |-> k] : n \in 0 .. MaxChannels, k \in {None, "deposit"}}

RECURSIVE SeqsUpTo(_, _)
SeqsUpTo(S, n) ==
    IF n = 0 THEN {<<>>}
    ELSE LET shorter == SeqsUpTo(S, n - 1)
         IN  shorter \cup {Append(s, e) : s \in {t \in shorter : Len(t) = n - 1}, e \in S}

NewArgs ==
    [max_ant_steps : {MaxSteps},
     ants_per_global_update : {0, MaxAnts},
     ants_return : {TRUE},
     parallelity : {<<>>, <<0>>, <<1>>, <<MaxPar + 1>>},
     available : {<<>>, <<MaxPar>>},
     pheromone_functions : SeqsUpTo(PolicyArrays, MaxLayers),
     global_update_func : {None, "global"}]


(***************************************************************************)
(* The constructor on its own: one call of AntColonyRules::new.            *)
(***************************************************************************)
Idle == "idle"

RulesIdle == new_args = <<>> /\ new_result = Idle
EnvIdle == img = Idle /\ rules = Idle /\ pheromones = Idle /\ rng = 0
AntIdle == ant = <<>>
ColonyIdle ==
    /\ pc = Idle /\ spawn_i = 0 /\ ants_left = 0 /\ threads = <<>> /\ workers = <<>>
    /\ total_visited = {} /\ pre_pheromones = Idle /\ pre_rng = 0 /\ global_calls = 0
SegIdle ==
    /\ seg_pheromones = Idle /\ threshold = 0 /\ contour = Idle /\ p = Idle
    /\ segments = <<>> /\ queued = <<>> /\ filled = {} /\ seg_pc = Idle
    /\ fill_color = <<>> /\ original_color = <<>>
MainIdle ==
    main_pc = Idle /\ step = 0 /\ steps_run = 0 /\ soft_timeout = <<>> /\ elapsed = 0
DistIdle ==
    overflow_checks = FALSE /\ dist_a = <<>> /\ dist_b = <<>> /\ dist_result = <<>>
ParetoIdle == attempts = <<>> /\ inserted = <<>> /\ MainIdle /\ DistIdle

InitRules ==
    /\ new_args = <<>> /\ new_result = Idle
    /\ EnvIdle /\ AntIdle /\ ColonyIdle /\ SegIdle /\ ParetoIdle

CallNew ==
    /\ new_args = <<>>
    /\ \E args \in NewArgs :
          /\ new_args' = <<args>>
          /\ new_result' = AntColonyRulesNew(args)
    /\ UNCHANGED <<envVars, antVars, colonyVars, segVars, paretoVars>>

NextRules == CallNew

SpecRules == InitRules /\ [][NextRules]_vars


\* what the call declared
DeclaredChannels(args) ==
    IF Len(args.pheromone_functions) > 0 THEN Len(args.pheromone_functions[1]) ELSE 0
UnequalArrays(args) ==
    \E i, j \in 1 .. Len(args.pheromone_functions) :
        Len(args.pheromone_functions[i]) # Len(args.pheromone_functions[j])

\* C10 (as stated): AntColonyRules::new returns an error when zero channels are
\* declared, when more channels than the supported maximum are declared (more
\* than 3, or more than 2 with a combined global update), or when the policy
\* arrays have unequal lengths.
C10_ErrorOnTooManyChannels ==
    new_args # <<>> =>
        LET args == new_args[1]
            n == DeclaredChannels(args)
        IN  (\/ n = 0
             \/ n > 3
             \/ (args.global_update_func # None /\ n > 2)
             \/ UnequalArrays(args)) => ~new_result.ok

\* C10 (amended): AntColonyRules::new returns an error, and no rule set,
\* exactly when zero channels are declared, when more than two policy arrays
\* are supplied, or when the policy arrays have unequal lengths; the number of
\* channels has no upper limit.
C10_ErrorCases ==
    new_args # <<>> =>
        LET args == new_args[1]
        IN  (\/ DeclaredChannels(args) = 0
             \/ Len(args.pheromone_functions) > 2
             \/ UnequalArrays(args)) <=> ~new_result.ok

\* C10 witness: a call with arrays of unequal lengths was rejected.
C10_Witness ==
    /\ new_args # <<>>
    /\ UnequalArrays(new_args[1])
    /\ DeclaredChannels(new_args[1]) > 0
    /\ Len(new_args[1].pheromone_functions) = 2
    /\ ~new_result.ok


(***************************************************************************)
(* Images and channel sets.  An image is [width, height, px], px giving    *)
(* each point its <<r, g, b>>; a channel gives each point its intensity.   *)
(***************************************************************************)
MakeImage(w, h) ==
    [width |-> w, height |-> h,
     px |-> [pt \in PointsOf(w, h) |->
                IF (pt[1] + pt[2]) % 2 = 0 THEN <<200, 30, 30>> ELSE <<30, 30, 200>>]]

ImageSizes == {<<1, 1>>, <<2, 2>>, <<3, 2>>}
Images == {MakeImage(s[1], s[2]) : s \in ImageSizes}

Points(image) == PointsOf(image.width, image.height)

\* PheromoneImage::new(width, height): all zero
NewChannel(image) == [pt \in Points(image) |-> 0]

\* Channel sets a step can start from: as initialised (no initialization
\* policy: all zero) and as a global update's normalize leaves a flat channel
\* (all 1.0).
ChannelSets(image, n) ==
    {[c \in 1 .. n |-> [pt \in Points(image) |-> v]] : v \in {0, F32One}}

(***************************************************************************)
(* Ant::spawn and Ant::run (image_ants.rs 182-240).  A walk is             *)
(* [position, target, visited, start, steps, status, rng]: start is the    *)
(* Option of line 196, steps the iterations of the for loop completed, rng *)
(* the stream the walk draws from.                                         *)
(***************************************************************************)
Spawn(stream, width, height) ==
    LET x1 == GenRange(stream, width)
        y1 == GenRange(x1.rng, height)
        x2 == GenRange(y1.rng, width)
        y2 == GenRange(x2.rng, height)
    IN  [position |-> <<x1.value, y1.value>>,
         target |-> <<x2.value, y2.value>>,
         visited |-> {},
         start |-> << <<x1.value, y1.value>> >>,
         steps |-> 0,
         status |-> "running",
         rng |-> y2.rng]

\* The weight of lines 208-231 in fixed point: the pheromone term in units
\* of 2^-10, distances in sixteenths.  It is 0 exactly when the candidate is
\* outside the image, as in the program.
get_weight(w, image, pher, newpos) ==
    IF ~is_within_rectangle(newpos, <<0, 0>>, <<image.width - 1, image.height - 1>>)
    THEN 0
    ELSE LET strength == SumSeq([c \in 1 .. Len(pher) |->
                                    IF pher[c][newpos] > 0 THEN pher[c][newpos] ELSE 0])
             base == (Tenth + strength) \div 2^17
             dist == euclidean_distance16(w.target, w.position)
             towards == (dist - euclidean_distance16(w.target, newpos)) + 48
             cdist == manhattan(image.px[w.position], image.px[newpos])
             weight == (base * towards * 100) \div (128 + cdist)
         IN  IF newpos \in w.visited THEN weight \div 100 ELSE weight

\* slice.choose(rng) in place of choose_weighted: the weights are ignored
ChooseUniform(items, weights, stream) ==
    [ok |-> TRUE,
     item |-> items[1 + ((NextRng(stream) * Len(items)) \div RngMod)],
     rng |-> NextRng(stream)]

\* slice.choose_weighted(rng, weight): Err when all weights are zero, else
\* one draw x in [0, total) and the first item whose running total exceeds x.
ChooseWeighted(items, weights, stream) ==
    LET n == Len(items)
        total == SumSeq(weights)
        x == (NextRng(stream) * total) \div RngMod
        cum(i) == SumSeq(SubSeq(weights, 1, i))
        index == 1 + Cardinality({i \in 1 .. n - 1 : cum(i) <= x})
    IN  IF total = 0 THEN [ok |-> FALSE]
        ELSE [ok |-> TRUE, item |-> items[index], rng |-> NextRng(stream)]

\* One pass of the body of the for loop (lines 198-237).
AntIterate(w, image, r, pher) ==
    IF w.position = w.target /\ ~(r.ants_return /\ w.start # <<>>)
    THEN \* break, then line 239
         [w EXCEPT !.visited = @ \cup {w.position}, !.status = "done"]
    ELSE LET w1 == IF w.position = w.target
                   THEN [w EXCEPT !.target = w.start[1], !.start = <<>>]
                   ELSE w
             w2 == [w1 EXCEPT !.visited = @ \cup {w.position}]
             items == iterate_neighbourhood(w2.position)
             weights == [i \in 1 .. 8 |-> get_weight(w2, image, pher, items[i])]
             choice == ChooseWeighted(items, weights, w2.rng)
         IN  IF ~choice.ok
             THEN \* .unwrap() of Err(AllWeightsZero)
                  [w2 EXCEPT !.status = "panicked"]
             ELSE [w2 EXCEPT !.position = choice.item, !.rng = choice.rng,
                             !.steps = @ + 1]

\* The loop ran max_ant_steps times: line 239.
AntExhaust(w) == [w EXCEPT !.visited = @ \cup {w.position}, !.status = "done"]

RECURSIVE AntRun(_, _, _, _)
AntRun(w, image, r, pher) ==
    IF w.status # "running" THEN w
    ELSE IF w.steps >= r.max_ant_steps THEN AntExhaust(w)
    ELSE AntRun(AntIterate(w, image, r, pher), image, r, pher)

(***************************************************************************)
(* One walk, step by step.                                                 *)
(***************************************************************************)
WalkRules ==
    {AntColonyRulesNew([max_ant_steps |-> m, ants_per_global_update |-> 1,
                        ants_return |-> ret, parallelity |-> <<1>>, available |-> <<1>>,
                        pheromone_functions |-> << <<"deposit">> >>,
                        global_update_func |-> None]).rules :
        m \in 0 .. MaxSteps + 1, ret \in BOOLEAN}

InitAnt ==
    /\ img \in Images
    /\ rules \in WalkRules
    /\ pheromones \in ChannelSets(img, 1)
    /\ rng \in 0 .. RngMod - 1
    /\ ant = <<>>
    /\ RulesIdle /\ ColonyIdle /\ SegIdle /\ ParetoIdle

AntSpawn ==
    /\ ant = <<>>
    /\ ant' = <<Spawn(rng, img.width, img.height)>>
    /\ UNCHANGED <<rulesVars, envVars, colonyVars, segVars, paretoVars>>

AntStep ==
    /\ ant # <<>>
    /\ ant[1].status = "running"
    /\ ant[1].steps < rules.max_ant_steps
    /\ ant' = <<AntIterate(ant[1], img, rules, pheromones)>>
    /\ UNCHANGED <<rulesVars, envVars, colonyVars, segVars, paretoVars>>

AntLoopEnd ==
    /\ ant # <<>>
    /\ ant[1].status = "running"
    /\ ant[1].steps >= rules.max_ant_steps
    /\ ant' = <<AntExhaust(ant[1])>>
    /\ UNCHANGED <<rulesVars, envVars, colonyVars, segVars, paretoVars>>

NextAnt == AntSpawn \/ AntStep \/ AntLoopEnd

SpecAnt == InitAnt /\ [][NextAnt]_vars

\* C4: in every state of a walk on a w x h image the ant's position and every
\* point of its visited set lie in [0, w-1] x [0, h-1]: a neighbour outside
\* the rectangle has weight 0 and is never the next position.
C4_WalkStaysInside ==
    ant # <<>> =>
        /\ ant[1].position \in Points(img)
        /\ ant[1].visited \subseteq Points(img)
        /\ ant[1].target \in Points(img)

\* C4 witness: a finished walk that moved twice and ended on the image's edge
\* row, where candidates outside the image were on offer at each step.
C4_Witness ==
    /\ ant # <<>>
    /\ ant[1].status = "done"
    /\ ant[1].steps >= 2
    /\ Cardinality(ant[1].visited) >= 3
    /\ ant[1].position[2] = img.height - 1


(***************************************************************************)
(* Local update and create_and_run_ants (image_ants.rs 137-162, 252-265).  *)
(***************************************************************************)
\* increase_phermomone(pheromone, visited, 0.1): the deposit policy
\* (single_objective::local, multi_objective::local_edge_value)
increase_phermomone(channel, points, amount) ==
    [pt \in DOMAIN channel |->
        IF pt \in points THEN F32Add(channel[pt], amount) ELSE channel[pt]]

\* AntColonyRules::apply with the local update policies
local_update(r, pher, visited) ==
    [c \in 1 .. Len(pher) |->
        IF r.local_update_funcs[c] # None
        THEN increase_phermomone(pher[c], visited, Tenth)
        ELSE pher[c]]

\* One pass of the loop of create_and_run_ants on a worker
\* [rng, pheromones, ants, visited_sets, status].
RunOneAnt(wk, image, r) ==
    LET walk == AntRun(Spawn(wk.rng, image.width, image.height), image, r, wk.pheromones)
    IN  IF walk.status = "panicked"
        THEN [wk EXCEPT !.status = "panicked"]
        ELSE [wk EXCEPT !.rng = walk.rng,
                        !.pheromones = local_update(r, wk.pheromones, walk.visited),
                        !.visited_sets = Append(@, walk.visited)]

RECURSIVE create_and_run_ants(_, _, _)
create_and_run_ants(wk, image, r) ==
    IF wk.status # "running" THEN wk
    ELSE IF Len(wk.visited_sets) >= wk.ants THEN [wk EXCEPT !.status = "finished"]
    ELSE create_and_run_ants(RunOneAnt(wk, image, r), image, r)

(***************************************************************************)
(* run_colony_step (image_ants.rs 269-307).                                *)
(***************************************************************************)
\* every worker but the last is given the floor, rounded up
ShardSizeCeil(i, r, left) ==
    IF i < r.parallelity - 1
    THEN Min(left, (r.ants_per_global_update + r.parallelity - 1) \div r.parallelity)
    ELSE left

\* lines 278-281: the ants of the worker spawned at index i (from 0)
ShardSize(i, r, left) ==
    IF i < r.parallelity - 1
    THEN Min(left, r.ants_per_global_update \div r.parallelity)
    ELSE left

\* total.add(&part) for every channel (lines 296-299)
MergeChannels(total, part) ==
    [c \in 1 .. Len(total) |->
        [pt \in DOMAIN total[c] |-> F32Add(total[c][pt], part[c][pt])]]

\* a join that leaves a panicked worker out
RECURSIVE JoinAllSkipPanicked(_, _, _, _)
JoinAllSkipPanicked(order, wks, total, visited) ==
    IF order = <<>> THEN [pheromones |-> total, total_visited |-> visited, ok |-> TRUE]
    ELSE LET wk == wks[Head(order)]
         IN  IF wk.status = "panicked"
             THEN JoinAllSkipPanicked(Tail(order), wks, total, visited)
             ELSE JoinAllSkipPanicked(Tail(order), wks,
                                      MergeChannels(total, wk.pheromones),
                                      visited \cup UnionSeq(wk.visited_sets))

\* the threads of `order` joined one after the other (lines 294-301)
RECURSIVE JoinAll(_, _, _, _)
JoinAll(order, wks, total, visited) ==
    IF order = <<>> THEN [pheromones |-> total, total_visited |-> visited, ok |-> TRUE]
    ELSE LET wk == wks[Head(order)]
         IN  IF wk.status = "panicked"
             THEN [pheromones |-> total, total_visited |-> visited, ok |-> FALSE]
             ELSE JoinAll(Tail(order), wks,
                          MergeChannels(total, wk.pheromones),
                          visited \cup UnionSeq(wk.visited_sets))

StepRules ==
    {AntColonyRulesNew([max_ant_steps |-> MaxSteps, ants_per_global_update |-> n,
                        ants_return |-> TRUE, parallelity |-> par, available |-> <<2>>,
                        pheromone_functions |-> << <<"deposit">> >>,
                        global_update_func |-> g]).rules :
        n \in 0 .. MaxAnts, par \in {<<>>} \cup {<<k>> : k \in 0 .. MaxPar},
        g \in {None, "global"}}

StepImages == {MakeImage(1, 1), MakeImage(2, 2)}

InitColony ==
    /\ img \in StepImages
    /\ rules \in StepRules
    /\ pheromones \in ChannelSets(img, channels(rules))
    /\ rng \in 0 .. RngMod - 1
    /\ pc = "spawn" /\ spawn_i = 0 /\ ants_left = rules.ants_per_global_update
    /\ threads = <<>> /\ workers = <<>> /\ total_visited = {}
    /\ pre_pheromones = pheromones /\ pre_rng = rng /\ global_calls = 0
    /\ RulesIdle /\ AntIdle /\ SegIdle /\ ParetoIdle

\* one pass of the loop of lines 276-287
SpawnWorker ==
    /\ pc = "spawn"
    /\ spawn_i < rules.parallelity
    /\ LET ants == ShardSize(spawn_i, rules, ants_left)
           derived == FromRng(rng)
       IN  /\ ants_left' = ants_left - ants
           /\ rng' = derived.rng
           /\ workers' = Append(workers, [rng |-> derived.child,
                                          pheromones |-> pheromones,
                                          ants |-> ants,
                                          visited_sets |-> <<>>,
                                          status |-> "running"])
           /\ threads' = Append(threads, spawn_i + 1)
    /\ spawn_i' = spawn_i + 1
    /\ UNCHANGED <<pc, total_visited, pre_pheromones, pre_rng, global_calls>>
    /\ UNCHANGED <<img, rules, pheromones>>
    /\ UNCHANGED <<rulesVars, antVars, segVars, paretoVars>>

SpawnEnd ==
    /\ pc = "spawn"
    /\ spawn_i >= rules.parallelity
    /\ pc' = "poll"
    /\ UNCHANGED <<spawn_i, ants_left, threads, workers, total_visited,
                   pre_pheromones, pre_rng, global_calls>>
    /\ UNCHANGED <<rulesVars, envVars, antVars, segVars, paretoVars>>

\* a worker whose local update writes to channels shared by all workers
WorkerAntShared(t) ==
    /\ workers[t].status = "running"
    /\ Len(workers[t].visited_sets) < workers[t].ants
    /\ LET after == RunOneAnt(workers[t], img, rules)
       IN  workers' = [s \in 1 .. Len(workers) |->
                          IF s = t THEN after
                          ELSE [workers[s] EXCEPT !.pheromones = after.pheromones]]
    /\ UNCHANGED <<pc, spawn_i, ants_left, threads, total_visited,
                   pre_pheromones, pre_rng, global_calls>>
    /\ UNCHANGED <<rulesVars, envVars, antVars, segVars, paretoVars>>

\* a worker thread runs its next ant
WorkerAnt(t) ==
    /\ workers[t].status = "running"
    /\ Len(workers[t].visited_sets) < workers[t].ants
    /\ workers' = [workers EXCEPT ![t] = RunOneAnt(@, img, rules)]
    /\ UNCHANGED <<pc, spawn_i, ants_left, threads, total_visited,
                   pre_pheromones, pre_rng, global_calls>>
    /\ UNCHANGED <<rulesVars, envVars, antVars, segVars, paretoVars>>

\* a worker thread returns from create_and_run_ants
WorkerReturn(t) ==
    /\ workers[t].status = "running"
    /\ Len(workers[t].visited_sets) >= workers[t].ants
    /\ workers' = [workers EXCEPT ![t].status = "finished"]
    /\ UNCHANGED <<pc, spawn_i, ants_left, threads, total_visited,
                   pre_pheromones, pre_rng, global_calls>>
    /\ UNCHANGED <<rulesVars, envVars, antVars, segVars, paretoVars>>

\* a poll pass that forgets the threads it did not see as finished
PollDropUnfinished ==
    /\ pc = "poll"
    /\ threads # <<>>
    /\ \E seen \in SUBSET {t \in 1 .. Len(workers) : workers[t].status # "running"} :
          LET IsSeen(t) == t \in seen
              finished == SelectSeq(threads, IsSeen)
              joined == JoinAll(finished, workers, pheromones, total_visited)
          IN  /\ pheromones' = joined.pheromones
              /\ total_visited' = joined.total_visited
              /\ threads' = <<>>
              /\ pc' = IF joined.ok THEN "poll" ELSE "panicked"
    /\ UNCHANGED <<spawn_i, ants_left, workers, pre_pheromones, pre_rng, global_calls>>
    /\ UNCHANGED <<img, rules, rng>>
    /\ UNCHANGED <<rulesVars, antVars, segVars, paretoVars>>

\* One pass of the poll loop (lines 288-303): is_finished() is read for each
\* handle while the workers run, so any of the threads that have ended by now
\* may be seen as finished; those are joined in the order of `threads`.
Poll ==
    /\ pc = "poll"
    /\ threads # <<>>
    /\ \E seen \in SUBSET {t \in 1 .. Len(workers) : workers[t].status # "running"} :
          LET IsSeen(t) == t \in seen
              finished == SelectSeq(threads, IsSeen)
              unfinished == SelectSeq(threads, LAMBDA t : ~IsSeen(t))
              joined == JoinAll(finished, workers, pheromones, total_visited)
          IN  /\ pheromones' = joined.pheromones
              /\ total_visited' = joined.total_visited
              /\ threads' = unfinished
              /\ pc' = IF joined.ok THEN "poll" ELSE "panicked"
    /\ UNCHANGED <<spawn_i, ants_left, workers, pre_pheromones, pre_rng, global_calls>>
    /\ UNCHANGED <<img, rules, rng>>
    /\ UNCHANGED <<rulesVars, antVars, segVars, paretoVars>>

\* `threads` is empty: the scope ends
PollEnd ==
    /\ pc = "poll"
    /\ threads = <<>>
    /\ pc' = "global"
    /\ UNCHANGED <<spawn_i, ants_left, threads, workers, total_visited,
                   pre_pheromones, pre_rng, global_calls>>
    /\ UNCHANGED <<rulesVars, envVars, antVars, segVars, paretoVars>>

\* line 306: rules.global_update(rng, img, pheromones, &total_visited).  The
\* policy is the caller's closure; its call is counted and the channel set it
\* is handed is left as it is.
GlobalUpdate ==
    /\ pc = "global"
    /\ global_calls' = IF rules.global_update_func # None
                       THEN global_calls + 1 ELSE global_calls
    /\ pc' = "done"
    /\ UNCHANGED <<spawn_i, ants_left, threads, workers, total_visited,
                   pre_pheromones, pre_rng>>
    /\ UNCHANGED <<rulesVars, envVars, antVars, segVars, paretoVars>>

NextColony ==
    \/ SpawnWorker
    \/ SpawnEnd
    \/ \E t \in 1 .. Len(workers) : WorkerAnt(t)
    \/ \E t \in 1 .. Len(workers) : WorkerReturn(t)
    \/ Poll
    \/ PollEnd
    \/ GlobalUpdate

SpecColony == InitColony /\ [][NextColony]_vars


(***************************************************************************)
(* run_colony_step as one function of its inputs, the workers joined in    *)
(* the order they were spawned.                                            *)
(***************************************************************************)
RECURSIVE WorkersInOrder(_, _, _, _, _, _)
WorkersInOrder(i, left, stream, pre, image, r) ==
    IF i >= r.parallelity THEN <<>>
    ELSE LET ants == ShardSize(i, r, left)
             derived == FromRng(stream)
             wk == create_and_run_ants([rng |-> derived.child, pheromones |-> pre,
                                        ants |-> ants, visited_sets |-> <<>>,
                                        status |-> "running"], image, r)
         IN  <<wk>> \o WorkersInOrder(i + 1, left - ants, derived.rng, pre, image, r)

StepInOrder(pre, stream, image, r) ==
    LET wks == WorkersInOrder(0, r.ants_per_global_update, stream, pre, image, r)
    IN  JoinAll([i \in 1 .. Len(wks) |-> i], wks, pre, {})

\* the same step under parallelity = 1
Sequential(r) == [r EXCEPT !.parallelity = 1]

WalksRun == SumSeq([t \in 1 .. Len(workers) |-> Len(workers[t].visited_sets)])

\* C1 (as stated): for the same pre-step channel set, parent stream state and
\* ants_per_global_update, a step with parallelity = k >= 2 hands the global
\* update the same merged channels and the same total visited set as a step
\* with parallelity = 1.
C1_SameAsSequential ==
    (pc = "global" /\ rules.parallelity >= 2) =>
        LET seq == StepInOrder(pre_pheromones, pre_rng, img, Sequential(rules))
        IN  seq.ok => /\ pheromones = seq.pheromones
                      /\ total_visited = seq.total_visited

\* C1 (amended): a step with parallelity = k >= 2 and a step with
\* parallelity = 1 on the same inputs agree on the walks of worker 0 only:
\* its floor(ants_per_global_update / k) ants visit the same pixel sets, in
\* the same order, as the first floor(ants_per_global_update / k) ants of the
\* parallelity-1 step.
C1_FirstShardAsSequential ==
    (pc = "global" /\ rules.parallelity >= 2) =>
        LET seq == WorkersInOrder(0, rules.ants_per_global_update, pre_rng,
                                  pre_pheromones, img, Sequential(rules))[1]
            k == rules.ants_per_global_update \div rules.parallelity
        IN  /\ seq.status = "finished"
            /\ workers[1].visited_sets = SubSeq(seq.visited_sets, 1, k)

\* C1 witness: a step with two or more workers reached the global update with
\* worker 0 having run an ant, and its merged channels differ from those of
\* the parallelity-1 step.
C1_Witness ==
    /\ pc = "global"
    /\ rules.parallelity >= 2
    /\ Len(workers[1].visited_sets) >= 1
    /\ pheromones # StepInOrder(pre_pheromones, pre_rng, img, Sequential(rules)).pheromones

\* C2: for a fixed rule set, pre-step channel set and parent stream state, the
\* merged channels and the total visited set handed to the global update are
\* the same for every order in which the workers finish and are joined.
C2_MergeOrderIndependent ==
    pc = "global" =>
        LET ref == StepInOrder(pre_pheromones, pre_rng, img, rules)
        IN  /\ pheromones = ref.pheromones
            /\ total_visited = ref.total_visited

\* C3: one step runs exactly ants_per_global_update walks in total, each of
\* the first parallelity-1 workers floor(ants_per_global_update / parallelity)
\* of them and the last worker the rest, for every accepted rule set.
C3_ExactAntCount ==
    pc = "global" =>
        /\ WalksRun = rules.ants_per_global_update
        /\ \A t \in 1 .. Len(workers) :
              Len(workers[t].visited_sets) =
                 IF t < rules.parallelity
                 THEN rules.ants_per_global_update \div rules.parallelity
                 ELSE rules.ants_per_global_update
                      - (rules.parallelity - 1)
                        * (rules.ants_per_global_update \div rules.parallelity)


(***************************************************************************)
(* extract_segments and fill_connected (segments.rs 93-108,                *)
(* utilities.rs 7-18 and 42-77).  p is the working copy of the contour,    *)
(* each pixel an <<r, g, b>>.                                              *)
(***************************************************************************)
White == <<255, 255, 255>>
Black == <<0, 0, 0>>

generate_color(num) ==
    LET i == num + 1
    IN  <<(i * 98) % 255, (i * 57) % 255, (i * 157) % 255>>

generate_unique_color(num) == generate_color(num)

\* the points of an image in the order of enumerate_pixels: row by row
RasterIndex(pt, width) == pt[2] * width + pt[1]

\* `.find(|(_, _, &p)| p == Rgb([255, 255, 255]))`: the first white pixel, or <<>>
FindBlank(px, width) ==
    LET blank == {pt \in DOMAIN px : px[pt] = White}
    IN  IF blank = {} THEN <<>>
        ELSE <<CHOOSE pt \in blank :
                  \A q \in blank : RasterIndex(pt, width) <= RasterIndex(q, width)>>

\* offsets that skip the centre only: the diagonals are kept
FillOffsetsWithDiagonals ==
    << <<-1, -1>>, <<-1, 0>>, <<-1, 1>>, <<0, -1>>, <<0, 1>>,
       <<1, -1>>, <<1, 0>>, <<1, 1>> >>

\* the (dx, dy) that pass `if dx == dy || dx == -dy { continue; }`, in loop order
FillOffsets == << <<-1, 0>>, <<0, -1>>, <<0, 1>>, <<1, 0>> >>

\* the neighbours pushed by one pass of the while loop, in push order
RECURSIVE PushNeighbours(_, _, _, _, _, _)
PushNeighbours(k, point, px, original, done, stack) ==
    IF k > Len(FillOffsets) THEN stack
    ELSE LET nx == Max(0, point[1] + FillOffsets[k][1])
             ny == Max(0, point[2] + FillOffsets[k][2])
             npoint == <<nx, ny>>
         IN  IF npoint \in DOMAIN px /\ px[npoint] = original /\ npoint \notin done
             THEN PushNeighbours(k + 1, point, px, original, done, Append(stack, npoint))
             ELSE PushNeighbours(k + 1, point, px, original, done, stack)

\* the contour images tried: any set of white pixels, the others black,
\* off-white or the colour of the first segment
OtherColor(pt) ==
    IF (pt[1] + 2 * pt[2]) % 3 = 0 THEN Black
    ELSE IF (pt[1] + 2 * pt[2]) % 3 = 1 THEN <<255, 255, 254>>
    ELSE generate_color(0)

SegSizes == (1 .. MaxSegWidth) \X (1 .. 3)

ContourImages ==
    UNION {{[width |-> sz[1], height |-> sz[2],
             px |-> [pt \in PointsOf(sz[1], sz[2]) |->
                        IF pt \in white THEN White ELSE OtherColor(pt)]] :
            white \in SUBSET PointsOf(sz[1], sz[2])} : sz \in SegSizes}

InitSegments ==
    /\ contour \in ContourImages
    /\ p = contour.px
    /\ seg_pheromones = <<>> /\ threshold = 0
    /\ segments = <<>> /\ queued = <<>> /\ filled = {} /\ seg_pc = "scan"
    /\ fill_color = <<>> /\ original_color = <<>>
    /\ RulesIdle /\ EnvIdle /\ AntIdle /\ ColonyIdle /\ ParetoIdle

\* lines 97-104 of segments.rs and 49-52 of utilities.rs: a blank pixel is
\* found and a fill starts from it
ScanBlank ==
    /\ seg_pc = "scan"
    /\ FindBlank(p, contour.width) # <<>>
    /\ LET start == FindBlank(p, contour.width)[1]
       IN  /\ fill_color' = generate_unique_color(Len(segments))
           /\ original_color' = p[start]
           /\ queued' = <<start>>
           /\ filled' = {}
    /\ seg_pc' = "fill"
    /\ UNCHANGED <<seg_pheromones, threshold, contour, p, segments>>
    /\ UNCHANGED <<rulesVars, envVars, antVars, colonyVars, paretoVars>>

\* lines 98-100: no blank pixel is left
ScanNone ==
    /\ seg_pc = "scan"
    /\ FindBlank(p, contour.width) = <<>>
    /\ seg_pc' = "done"
    /\ UNCHANGED <<seg_pheromones, threshold, contour, p, segments, queued, filled,
                   fill_color, original_color>>
    /\ UNCHANGED <<rulesVars, envVars, antVars, colonyVars, paretoVars>>

\* one pass of the while loop of fill_connected (lines 53-75)
FillStep ==
    /\ seg_pc = "fill"
    /\ queued # <<>>
    /\ LET point == queued[Len(queued)]
           rest == SubSeq(queued, 1, Len(queued) - 1)
           painted == [p EXCEPT ![point] = fill_color]
           done == filled \cup {point}
       IN  /\ filled' = done
           /\ p' = painted
           /\ queued' = PushNeighbours(1, point, painted, original_color, done, rest)
    /\ UNCHANGED <<seg_pheromones, threshold, contour, segments, seg_pc,
                   fill_color, original_color>>
    /\ UNCHANGED <<rulesVars, envVars, antVars, colonyVars, paretoVars>>

\* fill_connected returns and its set is pushed (line 104 of segments.rs)
FillReturn ==
    /\ seg_pc = "fill"
    /\ queued = <<>>
    /\ segments' = Append(segments, filled)
    /\ seg_pc' = "scan"
    /\ UNCHANGED <<seg_pheromones, threshold, contour, p, queued, filled,
                   fill_color, original_color>>
    /\ UNCHANGED <<rulesVars, envVars, antVars, colonyVars, paretoVars>>

NextSegments == ScanBlank \/ ScanNone \/ FillStep \/ FillReturn

SpecSegments == InitSegments /\ [][NextSegments]_vars

\* the 4-connected region of `pt` within the set `region`
Adjacent4(a, b) == Abs(a[1] - b[1]) + Abs(a[2] - b[2]) = 1
RECURSIVE Grow4(_, _)
Grow4(reached, region) ==
    LET more == reached \cup {q \in region : \E c \in reached : Adjacent4(q, c)}
    IN  IF more = reached THEN reached ELSE Grow4(more, region)
Region4(pt, region) == Grow4({pt}, region)

WhitePixels == {pt \in DOMAIN contour.px : contour.px[pt] = White}

\* C5: the segments extract_segments returns are pairwise disjoint, their
\* union is exactly the set of exact-white pixels of the contour, each is one
\* maximal 4-connected region of white pixels, and a contour whose white
\* pixels form one 4-connected region yields exactly that one segment.
C5_SegmentsAreRegions ==
    seg_pc = "done" =>
        /\ \A i, j \in 1 .. Len(segments) : i # j => segments[i] \cap segments[j] = {}
        /\ UnionSeq(segments) = WhitePixels
        /\ \A i \in 1 .. Len(segments) :
              /\ segments[i] # {}
              /\ \A pt \in segments[i] : segments[i] = Region4(pt, WhitePixels)
        /\ \A pt \in WhitePixels :
              Region4(pt, WhitePixels) = WhitePixels => segments = <<WhitePixels>>

\* C5 witness: a finished extraction with two segments that touch only at a
\* corner, next to a pixel that is off-white.
C5_Witness ==
    /\ seg_pc = "done"
    /\ Len(segments) >= 2
    /\ \E a \in segments[1], b \in segments[2] :
          Abs(a[1] - b[1]) = 1 /\ Abs(a[2] - b[2]) = 1
    /\ \E pt \in DOMAIN contour.px : contour.px[pt] = <<255, 255, 254>>
    /\ \E i \in 1 .. Len(segments) : Cardinality(segments[i]) >= 3


(***************************************************************************)
(* contour_segmententation and extract_edges (segment_generation.rs 14-28  *)
(* and 115-120).  Here a channel set is [width, height, channels] and an   *)
(* intensity is a whole number of units of 1.0, which f32 adds and         *)
(* compares exactly; a threshold is in hundredths.                         *)
(***************************************************************************)
\* lines 15-18: the channels summed
SumChannels(chs) ==
    [pt \in DOMAIN chs[1] |-> SumSeq([c \in 1 .. Len(chs) |-> chs[c][pt]])]

\* PheromoneImage::max: fold from 0.0
RECURSIVE MaxOver(_, _)
MaxOver(ch, pts) ==
    IF pts = {} THEN 0
    ELSE LET pt == CHOOSE q \in pts : TRUE
         IN  Max(ch[pt], MaxOver(ch, pts \ {pt}))
ChannelMax(ch) == MaxOver(ch, DOMAIN ch)

\* PheromoneImage::binarize: normalize (v / max unless max is 0 or 1), then
\* 1.0 where the value is strictly above the threshold, else 0.0
binarize(ch, thr) ==
    LET max == ChannelMax(ch)
        div == IF max = 0 \/ max = 1 THEN 1 ELSE max
    IN  [pt \in DOMAIN ch |-> IF ch[pt] * 100 > thr * div THEN 1 ELSE 0]

\* imageops::invert on Luma<f32>: 1.0 - v
invert(ch) == [pt \in DOMAIN ch |-> 1 - ch[pt]]

\* a Laplace kernel with the wrong sign at its centre
LaplaceAtPlusCentre(ch, pt) ==
    SumSeq([i \in 1 .. 8 |-> ch[iterate_neighbourhood(pt)[i]]]) + 8 * ch[pt]

\* LAPLACE_KERNEL at an inner pixel: the 8 neighbours minus 8 times the centre
LaplaceAt(ch, pt) ==
    SumSeq([i \in 1 .. 8 |-> ch[iterate_neighbourhood(pt)[i]]]) - 8 * ch[pt]

\* imageops::filter3x3: inner pixels get the kernel's response clamped to
\* [0, 1], the outermost ring stays 0
filter3x3(ch, w, h) ==
    [pt \in DOMAIN ch |->
        IF pt[1] >= 1 /\ pt[1] < w - 1 /\ pt[2] >= 1 /\ pt[2] < h - 1
        THEN Max(0, Min(1, LaplaceAt(ch, pt)))
        ELSE 0]

extract_edges(ch, thr, w, h) == filter3x3(invert(binarize(ch, thr)), w, h)

\* the cropped interior pasted at the origin
PasteAtOrigin(ch, w, h) ==
    [pt \in DOMAIN ch |->
        IF pt[1] < w - 2 /\ pt[2] < h - 2
        THEN (IF ch[<<pt[1] + 1, pt[2] + 1>>] = 1 THEN White ELSE Black)
        ELSE Black]

\* lines 22-26: crop_imm(1, 1, w - 2, h - 2).to_rgb8() replaced at (1, 1) on a
\* new (black) canvas
CropAndReplace(ch, w, h) ==
    [pt \in DOMAIN ch |->
        IF pt[1] >= 1 /\ pt[1] <= w - 2 /\ pt[2] >= 1 /\ pt[2] <= h - 2
        THEN (IF ch[pt] = 1 THEN White ELSE Black)
        ELSE Black]

contour_segmententation(ph, thr) ==
    LET segmentation == invert(extract_edges(SumChannels(ph.channels), thr,
                                             ph.width, ph.height))
    IN  [width |-> ph.width, height |-> ph.height,
         px |-> CropAndReplace(segmentation, ph.width, ph.height)]

\* The channel sets tried: one or two channels, at most MaxHot pixels of the
\* first channel with pheromone (1.0 or 4.0), a second channel flat at zero
\* or with 1.0 on the main diagonal.
ContourSizes == {<<3, 3>>, <<4, 3>>, <<4, 4>>}

HotChannels(w, h) ==
    UNION {{[pt \in PointsOf(w, h) |->
                IF pt \in hot THEN (IF pt \in strong THEN 4 ELSE 1) ELSE 0] :
            strong \in SUBSET hot} :
           hot \in {hs \in SUBSET PointsOf(w, h) : Cardinality(hs) <= MaxHot}}

ContourInputs ==
    UNION {{[width |-> sz[1], height |-> sz[2], channels |-> <<first>>] :
            first \in HotChannels(sz[1], sz[2])}
           \cup
           {[width |-> sz[1], height |-> sz[2],
             channels |-> <<first, [pt \in PointsOf(sz[1], sz[2]) |->
                                       IF pt[1] = pt[2] THEN d ELSE 0]>>] :
            first \in HotChannels(sz[1], sz[2]), d \in {0, 1}} :
           sz \in ContourSizes}

InitContour ==
    /\ seg_pheromones \in ContourInputs
    /\ threshold \in {25, 33}
    /\ contour = <<>> /\ p = <<>>
    /\ segments = <<>> /\ queued = <<>> /\ filled = {} /\ seg_pc = "contour"
    /\ fill_color = <<>> /\ original_color = <<>>
    /\ RulesIdle /\ EnvIdle /\ AntIdle /\ ColonyIdle /\ ParetoIdle

\* region_segmententation (lines 44-48): the contour is computed and handed
\* to extract_segments, which clones it
Contour ==
    /\ seg_pc = "contour"
    /\ contour' = contour_segmententation(seg_pheromones, threshold)
    /\ p' = contour'.px
    /\ seg_pc' = "scan"
    /\ UNCHANGED <<seg_pheromones, threshold, segments, queued, filled,
                   fill_color, original_color>>
    /\ UNCHANGED <<rulesVars, envVars, antVars, colonyVars, paretoVars>>

NextContour == Contour \/ ScanBlank \/ ScanNone \/ FillStep \/ FillReturn

SpecContour == InitContour /\ [][NextContour]_vars

Ring(w, h) ==
    {pt \in PointsOf(w, h) : pt[1] = 0 \/ pt[1] = w - 1 \/ pt[2] = 0 \/ pt[2] = h - 1}

AllZero4x4 ==
    /\ seg_pheromones.width = 4 /\ seg_pheromones.height = 4
    /\ \A c \in 1 .. Len(seg_pheromones.channels) :
          \A pt \in PointsOf(4, 4) : seg_pheromones.channels[c][pt] = 0

\* C8 (as stated): contour extraction with threshold 0.33 and region
\* extraction on all-zero 4x4 channels yield exactly one segment, which
\* contains all 16 pixels.
C8_OneSegmentOfAll16 ==
    (seg_pc = "done" /\ AllZero4x4 /\ threshold = 33) =>
        segments = <<PointsOf(4, 4)>>

\* C8 (amended): contour extraction with threshold 0.33 and region extraction
\* on all-zero 4x4 channels yield exactly one segment, which contains the 4
\* inner pixels; the 12 pixels of the outermost ring are contour and belong to
\* no segment.
C8_OneSegmentOfInner4 ==
    (seg_pc = "done" /\ AllZero4x4 /\ threshold = 33) =>
        segments = <<PointsOf(4, 4) \ Ring(4, 4)>>

\* C8 witness: the extraction on all-zero 4x4 channels has finished.
C8_Witness ==
    /\ seg_pc = "done" /\ AllZero4x4 /\ threshold = 33
    /\ Len(segments) = 1

\* C9 (as stated): in the output of contour_segmententation on an image at
\* least 3 wide and high, every pixel of the outermost ring has the
\* background colour (exact white), never the contour colour.
C9_RingIsBackground ==
    (seg_pc # "contour" /\ contour.width >= 3 /\ contour.height >= 3) =>
        \A pt \in Ring(contour.width, contour.height) : contour.px[pt] = White

\* C9 (amended): in the output of contour_segmententation on an image at
\* least 3 wide and high, every pixel of the outermost ring has the contour
\* colour (black), never the background white that the region extractor
\* fills, so no segment holds a ring pixel.
C9_RingIsContour ==
    (seg_pc # "contour" /\ contour.width >= 3 /\ contour.height >= 3) =>
        /\ \A pt \in Ring(contour.width, contour.height) : contour.px[pt] = Black
        /\ UnionSeq(segments) \cap Ring(contour.width, contour.height) = {}

\* C9 witness: a contour whose inner pixels hold both colours, two channels
\* summed and normalised, and the extraction has finished.
C9_Witness ==
    /\ seg_pc = "done"
    /\ Len(seg_pheromones.channels) = 2
    /\ ChannelMax(SumChannels(seg_pheromones.channels)) > 1
    /\ \E a, b \in PointsOf(contour.width, contour.height) :
          contour.px[a] = White /\ contour.px[b] = Black
                                /\ b \notin Ring(contour.width, contour.height)


(***************************************************************************)
(* The archive of attempts (main.rs 125-159, pareto_pheromones.rs 46-52).  *)
(* A metric is a whole number of halves; overall_deviation is the mean of  *)
(* the segments' deviations, which is NaN when there is no segment.        *)
(***************************************************************************)
NaN == -1

\* f64 comparisons: false as soon as one side is NaN
Ge(a, b) == a # NaN /\ b # NaN /\ a >= b
Le(a, b) == a # NaN /\ b # NaN /\ a <= b

\* dominance that asks for a strictly larger edge value
dominateStrictEdge(self, other) ==
    /\ Ge(self.edge_value, other.edge_value)
    /\ self.edge_value # other.edge_value
    /\ Le(self.connectivity_measure, other.connectivity_measure)
    /\ Le(self.overall_deviation, other.overall_deviation)

dominate(self, other) ==
    /\ Ge(self.edge_value, other.edge_value)
    /\ Le(self.connectivity_measure, other.connectivity_measure)
    /\ Le(self.overall_deviation, other.overall_deviation)

Swap(front, i, j) ==
    [k \in 1 .. Len(front) |->
        IF k = i THEN front[j] ELSE IF k = j THEN front[i] ELSE front[k]]

\* a push that never evicts
PushNoEvict(front, new) ==
    IF \E i \in 1 .. Len(front) : dominate(front[i], new)
    THEN front
    ELSE Append(front, new)

\* ParetoFront::push: the front is scanned in order; the first member that
\* dominates the new element ends the scan with the element rejected (the
\* member moves to the head); the first member the new element dominates is
\* replaced by it and the later members it dominates are removed; otherwise
\* the element is appended.
ParetoPush(front, new) ==
    LET hits == {i \in 1 .. Len(front) :
                    dominate(front[i], new) \/ dominate(new, front[i])}
    IN  IF hits = {} THEN Append(front, new)
        ELSE LET i == CHOOSE h \in hits : \A g \in hits : h <= g
             IN  IF dominate(front[i], new) THEN Swap(front, 1, i)
                 ELSE SubSeq(front, 1, i - 1) \o <<new>> \o
                      SelectSeq(SubSeq(front, i + 1, Len(front)),
                                LAMBDA m : ~dominate(new, m))

\* the metrics an attempt can come with
Metrics ==
    [edge_value : {10, 20}, connectivity_measure : {1, 2, 4},
     overall_deviation : {2, 4, NaN}]

InitPareto ==
    /\ attempts = <<>> /\ inserted = <<>> /\ MainIdle /\ DistIdle
    /\ RulesIdle /\ EnvIdle /\ AntIdle /\ ColonyIdle /\ SegIdle

\* main.rs 148-155: one attempt is evaluated and pushed
PushAttempt ==
    /\ Len(inserted) < MaxInserts
    /\ \E m \in Metrics :
          LET new == [id |-> Len(inserted) + 1,
                      edge_value |-> m.edge_value,
                      connectivity_measure |-> m.connectivity_measure,
                      overall_deviation |-> m.overall_deviation]
          IN  /\ inserted' = Append(inserted, new)
              /\ attempts' = ParetoPush(attempts, new)
    /\ UNCHANGED <<main_pc, step, steps_run, soft_timeout, elapsed>>
    /\ UNCHANGED <<rulesVars, envVars, antVars, colonyVars, segVars, distVars>>

NextPareto == PushAttempt

SpecPareto == InitPareto /\ [][NextPareto]_vars

Members(front) == {front[i] : i \in 1 .. Len(front)}

\* the dominance relation as the claims state it
Dominates(a, b) ==
    /\ Ge(a.edge_value, b.edge_value)
    /\ Le(a.connectivity_measure, b.connectivity_measure)
    /\ Le(a.overall_deviation, b.overall_deviation)

SameMetrics(a, b) ==
    /\ a.edge_value = b.edge_value
    /\ a.connectivity_measure = b.connectivity_measure
    /\ a.overall_deviation = b.overall_deviation

NoMemberDominatesAnother ==
    \A a, b \in Members(attempts) : a.id # b.id => ~Dominates(a, b)

PushRejectsAndEvicts ==
    Len(inserted') = Len(inserted) + 1 =>
        LET new == inserted'[Len(inserted')]
        IN  IF \E m \in Members(attempts) : Dominates(m, new)
            THEN Members(attempts') = Members(attempts)
            ELSE /\ new \in Members(attempts')
                 /\ \A m \in Members(attempts) :
                       Dominates(new, m) => m \notin Members(attempts')
                 /\ \A m \in Members(attempts) :
                       ~Dominates(new, m) => m \in Members(attempts')

\* C6: after any sequence of insertions no archived attempt dominates another
\* archived attempt (A dominates B iff A.edge_value >= B.edge_value, A's
\* connectivity_measure <= B's and A's overall_deviation <= B's); a candidate
\* dominated by an archived member is rejected, and every member dominated by
\* an accepted candidate is evicted while the other members stay.
C6_NoMemberDominated ==
    [](NoMemberDominatesAnother) /\ [][PushRejectsAndEvicts]_vars

\* C6 witness: the archive holds two attempts after one candidate was
\* rejected or one member was evicted.
C6_Witness ==
    /\ Len(attempts) = 2
    /\ Len(inserted) = 3
    /\ \E a, b \in Members(inserted) : a.id # b.id /\ Dominates(a, b)

\* C7 (as stated): the archive contains exactly those inserted attempts that
\* no other inserted attempt dominates.
C7_ArchiveIsFrontier ==
    Members(attempts) =
        {a \in Members(inserted) :
            \A b \in Members(inserted) : b.id # a.id => ~Dominates(b, a)}

\* C7 (amended): the archive contains exactly those inserted attempts that no
\* other inserted attempt dominates with different metrics, and that no
\* earlier inserted attempt with identical metrics dominates (of several
\* attempts with the same metrics the first one stays); inserting
\* A (edge 10, conn 1, dev 1), B (5, 2, 2), C (10, 0.5, 1) leaves only C.
C7_ArchiveIsFrontierUpToTies ==
    /\ Members(attempts) =
          {a \in Members(inserted) :
              \A b \in Members(inserted) :
                  (b.id # a.id /\ Dominates(b, a)) =>
                      (SameMetrics(a, b) /\ b.id > a.id)}
    /\ (/\ Len(inserted) = 3
        /\ \A i \in 1 .. 3 :
              /\ inserted[i].edge_value = <<20, 10, 20>>[i]
              /\ inserted[i].connectivity_measure = <<2, 4, 1>>[i]
              /\ inserted[i].overall_deviation = <<2, 4, 2>>[i])
       => attempts = <<inserted[3]>>

\* C7 witness: A, B and C were inserted in this order.
C7_Witness ==
    /\ Len(inserted) = 3
    /\ \A i \in 1 .. 3 :
          /\ inserted[i].edge_value = <<20, 10, 20>>[i]
          /\ inserted[i].connectivity_measure = <<2, 4, 1>>[i]
          /\ inserted[i].overall_deviation = <<2, 4, 2>>[i]
    /\ Len(attempts) = 1

(***************************************************************************)
(* The streams of a colony step.                                           *)
(***************************************************************************)
\* the parent stream after i seedings, and the i-th stream seeded from it
RECURSIVE ParentAfter(_, _)
ParentAfter(stream, i) == IF i = 0 THEN stream ELSE NextRng(ParentAfter(stream, i - 1))

IthStream(stream, i) == (7 * ParentAfter(stream, i) + 1) % RngMod

\* worker t as its thread leaves it, computed from the i-th stream alone
WorkerFromIthStream(t) ==
    create_and_run_ants([rng |-> IthStream(pre_rng, t), pheromones |-> pre_pheromones,
                         ants |-> workers[t].ants, visited_sets |-> <<>>,
                         status |-> "running"], img, rules)

\* C11: for a fixed parent stream state at the start of run_colony_step, the
\* stream handed to worker i is the i-th value seeded from the parent stream
\* in worker-index order, and every worker's stream (with all it draws from
\* it) and the parent stream state passed to the global update are the same
\* in every interleaving of worker start, execution and completion.
C11_StreamsFixedByIndex ==
    /\ \A t \in 1 .. Len(workers) :
          /\ workers[t].visited_sets = <<>> => workers[t].rng = IthStream(pre_rng, t)
          /\ workers[t].status # "running" => workers[t] = WorkerFromIthStream(t)
    /\ pc \in {"global", "done"} => rng = ParentAfter(pre_rng, rules.parallelity)

\* C11 witness: the global update is reached after three workers were
\* started, the first two with different streams, and an ant has run.
C11_Witness ==
    /\ pc = "global"
    /\ Len(workers) = 3
    /\ \E t \in 1 .. 3 : Len(workers[t].visited_sets) >= 1
    /\ IthStream(pre_rng, 1) # IthStream(pre_rng, 2)

\* C12: if any worker of a colony step panics, run_colony_step ends in a
\* panic of its own: it never reaches its return and never invokes the global
\* update with a merged state that lacks that worker's contribution.
C12_WorkerPanicIsFatal ==
    (\E t \in 1 .. Len(workers) : workers[t].status = "panicked") =>
        /\ pc \notin {"global", "done"}
        /\ global_calls = 0
        /\ threads = <<>> => pc = "panicked"

\* C12 witness: the step has panicked at the join of a panicked worker, with
\* a second worker started.
C12_Witness ==
    /\ pc = "panicked"
    /\ Len(workers) >= 2
    /\ \E t \in 1 .. Len(workers) : workers[t].status = "panicked"

\* the cells some ant's local update touched
Touched == UNION {UnionSeq(workers[t].visited_sets) : t \in 1 .. Len(workers)}

\* C13: when the merge of a colony step is complete and before the global
\* update runs, every cell of every authoritative channel equals its pre-step
\* value plus the sum over the workers of the worker's delta (its final local
\* value of the cell minus the pre-step value); a cell that no ant's local
\* update touched keeps its pre-step value.
C13_MergeAddsDeltas ==
    pc = "global" =>
        \A c \in 1 .. Len(pheromones) : \A pt \in Points(img) :
            /\ pheromones[c][pt] =
                  pre_pheromones[c][pt]
                  + SumSeq([t \in 1 .. Len(workers) |->
                               workers[t].pheromones[c][pt] - pre_pheromones[c][pt]])
            /\ pt \notin Touched => pheromones[c][pt] = pre_pheromones[c][pt]

(***************************************************************************)
(* The spawn loop of run_colony_step alone (lines 274-287): the shards     *)
(* depend on ants_per_global_update and parallelity only, so here the      *)
(* workers are started and not followed any further.                       *)
(***************************************************************************)
ShardRules ==
    {AntColonyRulesNew([max_ant_steps |-> MaxSteps, ants_per_global_update |-> n,
                        ants_return |-> TRUE, parallelity |-> par, available |-> <<2>>,
                        pheromone_functions |-> << <<"deposit">> >>,
                        global_update_func |-> None]).rules :
        n \in 0 .. MaxShardAnts, par \in {<<>>} \cup {<<k>> : k \in 0 .. MaxShardPar}}

InitShards ==
    /\ img = MakeImage(1, 1)
    /\ rules \in ShardRules
    /\ pheromones \in ChannelSets(img, channels(rules))
    /\ rng \in {0, 1}
    /\ pc = "spawn" /\ spawn_i = 0 /\ ants_left = rules.ants_per_global_update
    /\ threads = <<>> /\ workers = <<>> /\ total_visited = {}
    /\ pre_pheromones = pheromones /\ pre_rng = rng /\ global_calls = 0
    /\ RulesIdle /\ AntIdle /\ SegIdle /\ ParetoIdle

NextShards == SpawnWorker \/ SpawnEnd

SpecShards == InitShards /\ [][NextShards]_vars

\* C14: in one run_colony_step the ants are partitioned as evenly as possible:
\* for every ants_per_global_update >= 1 and every parallelity between 1 and
\* ants_per_global_update, the numbers of ants assigned to any two workers
\* differ by at most 1.
C14_EvenPartition ==
    (/\ pc = "poll"
     /\ rules.ants_per_global_update >= 1
     /\ rules.parallelity >= 1
     /\ rules.parallelity <= rules.ants_per_global_update) =>
        \A s, t \in 1 .. Len(workers) : Abs(workers[s].ants - workers[t].ants) <= 1

\* the orders in which n workers can be joined
JoinOrders(n) ==
    {order \in [1 .. n -> 1 .. n] : \A i, j \in 1 .. n : order[i] = order[j] => i = j}

\* every worker is finished and the authoritative state is what joining each
\* of them once, in some order, leaves
AllMergedOnce ==
    /\ threads = <<>>
    /\ Len(workers) = rules.parallelity
    /\ \A t \in 1 .. Len(workers) : workers[t].status = "finished"
    /\ \E order \in JoinOrders(Len(workers)) :
          JoinAll(order, workers, pre_pheromones, {}) =
              [pheromones |-> pheromones, total_visited |-> total_visited, ok |-> TRUE]

\* C15: in every run_colony_step in which no worker panics, the global update
\* is invoked exactly once (when one is configured), and only after every
\* worker spawned in that step has finished and its result has been merged
\* into the authoritative channels and the total visited set exactly once.
C15_GlobalUpdateOnceAfterMerge ==
    /\ global_calls <= 1
    /\ global_calls = 1 => pc = "done"
    /\ pc = "done" =>
          global_calls = IF rules.global_update_func # None THEN 1 ELSE 0
    /\ pc \in {"global", "done"} => AllMergedOnce

\* C15 witness: the step has returned after its one global update, with three
\* workers merged and an ant run by each.
C15_Witness ==
    /\ pc = "done"
    /\ global_calls = 1
    /\ Len(workers) = 3
    /\ \A t \in 1 .. 3 : Len(workers[t].visited_sets) = 1

\* the channels of a worker after the local updates of its ants, in the order
\* the ants ran
RECURSIVE LocalUpdates(_, _)
LocalUpdates(pher, visited_sets) ==
    IF visited_sets = <<>> THEN pher
    ELSE LocalUpdates(local_update(rules, pher, Head(visited_sets)), Tail(visited_sets))

\* the workers the poll loop has joined
Joined == {t \in 1 .. Len(workers) : \A i \in 1 .. Len(threads) : threads[i] # t}

\* C16: during a colony step the channel values an ant of worker i reads are
\* the pre-step values plus the local updates of the ants that ran earlier in
\* worker i only; no local update of a worker changes another worker's clone,
\* nor the authoritative channels before that worker is merged (they hold the
\* pre-step values and the clones of the joined workers only), and a walk
\* itself changes no channel value.
C16_LocalUpdatesStayLocal ==
    /\ \A t \in 1 .. Len(workers) :
          workers[t].pheromones = LocalUpdates(pre_pheromones, workers[t].visited_sets)
    /\ pc = "spawn" => pheromones = pre_pheromones
    /\ pc \in {"poll", "global", "done"} =>
          \E order \in JoinOrders(Len(workers)) :
              LET joined == SelectSeq(order, LAMBDA t : t \in Joined)
              IN  JoinAll(joined, workers, pre_pheromones, {}).pheromones = pheromones

\* C16 witness: two workers run side by side, one has deposited pheromone on
\* its clone and the other, not yet joined, still has the pre-step values.
C16_Witness ==
    /\ pc = "poll"
    /\ Len(workers) >= 2
    /\ \E s, t \in 1 .. Len(workers) :
          /\ workers[s].status = "running" /\ workers[t].status = "running"
          /\ Len(workers[s].visited_sets) >= 1
          /\ workers[s].pheromones # pre_pheromones
          /\ workers[t].pheromones = pre_pheromones
          /\ workers[t].ants >= 1
    /\ pheromones = pre_pheromones

(***************************************************************************)
(* Properties of one walk.                                                 *)
(***************************************************************************)
\* the position the ant was spawned at
Origin == Spawn(rng, img.width, img.height).position

\* one iteration of the walk's loop, from w to w2, with return behaviour:
\* the target is reassigned at most once and to the original start, and
\* there is no move from a position that equals the reassigned target
ReturnsOnceThenStops(w, w2) ==
    /\ w.start = <<>> => (w2.start = <<>> /\ w2.target = w.target)
    /\ (w.start # <<>> /\ w2.start = <<>>) => w2.target = Origin
    /\ (w2.start = <<>> /\ w.position = w2.target) => w2.position = w.position

\* C17: with return behaviour enabled, an ant reassigns its target at most
\* once per walk, to its original start position, and once the target is
\* reassigned the ant makes no further move from any state in which its
\* position equals the reassigned target, for every start/target pair, the
\* pair with start equal to target included.
C17_ReturnOnceThenStop ==
    [][(ant # <<>> /\ ant' # <<>> /\ rules.ants_return) =>
          ReturnsOnceThenStops(ant[1], ant'[1])]_vars

\* all 8 neighbour candidates of the walk's position weigh zero
AllWeightsZero(w) ==
    \A i \in 1 .. 8 :
        get_weight(w, img, pheromones, iterate_neighbourhood(w.position)[i]) = 0

\* C18: when at some step of Ant::run all 8 neighbour candidates have weight
\* zero (as on a 1x1 image), the walk terminates at once without a panic: the
\* ant does not move and its current position is recorded as visited.
C18_ZeroWeightsEndWalk ==
    (ant # <<>> /\ AllWeightsZero(ant[1]) /\ ant[1].status # "running") =>
        /\ ant[1].status = "done"
        /\ ant[1].steps = 0
        /\ ant[1].position \in ant[1].visited

(***************************************************************************)
(* A colony step under fair scheduling: the coordinator goes on with its   *)
(* loops, a poll pass that could join an ended thread is not put off for   *)
(* ever (yield_now and recheck), and every worker thread that can run its  *)
(* next ant or return does so.  For WorkerAnt weak fairness is written out *)
(* with its enabling condition: the thread is infinitely often unable to   *)
(* run an ant, or runs one infinitely often.                               *)
(***************************************************************************)
CanRunAnt(t) ==
    /\ t <= Len(workers)
    /\ workers[t].status = "running"
    /\ Len(workers[t].visited_sets) < workers[t].ants

SpecColonyFair ==
    /\ SpecColony
    /\ WF_vars(SpawnWorker) /\ WF_vars(SpawnEnd)
    /\ WF_vars(Poll) /\ WF_vars(PollEnd) /\ WF_vars(GlobalUpdate)
    /\ \A t \in 1 .. MaxPar : WF_vars(t <= Len(workers) /\ WorkerReturn(t))
    /\ \A t \in 1 .. MaxPar :
          \/ []<>(~CanRunAnt(t))
          \/ []<><<t <= Len(workers) /\ WorkerAnt(t)>>_vars

\* C19: every ant walk stops after at most max_ant_steps moves, so under fair
\* scheduling of the worker threads every run_colony_step eventually returns:
\* each worker finishes its shard and the poll loop exits once all workers
\* have been merged.
C19_StepReturns == <>(pc = "done")

(***************************************************************************)
(* The attempt loop of main (main.rs 125-159), run without --detailed and  *)
(* --evaluate-steps.  step is the variable of the for loop, steps_run      *)
(* counts the colony steps that returned, elapsed is what                  *)
(* start_time.elapsed() shows, in whole seconds, soft_timeout the Option   *)
(* of the --timeout argument.  A colony step takes no time or a second,    *)
(* and it returns or panics.                                               *)
(***************************************************************************)
StepsPerAttempt == 50

\* the metrics the attempts of this loop can come with
AttemptMetrics ==
    {m \in Metrics : m.connectivity_measure = 2 /\ m.overall_deviation # 4}

InitAttempts ==
    /\ attempts = <<>> /\ inserted = <<>>
    /\ main_pc = "init" /\ step = 0 /\ steps_run = 0 /\ elapsed = 0
    /\ DistIdle
    /\ soft_timeout \in {<<>>} \cup {<<secs>> : secs \in 0 .. MaxClock}
    /\ RulesIdle /\ EnvIdle /\ AntIdle /\ ColonyIdle /\ SegIdle

\* line 128: a new attempt starts from initialised pheromones
InitializePheromones ==
    /\ main_pc = "init"
    /\ Len(inserted) < MaxAttempts
    /\ main_pc' = "steps"
    /\ step' = 0
    /\ UNCHANGED <<attempts, inserted, steps_run, soft_timeout, elapsed>>
    /\ UNCHANGED <<rulesVars, envVars, antVars, colonyVars, segVars, distVars>>

\* a pass of the for loop that also tests the timeout
MainStepChecksTimeout ==
    /\ main_pc = "steps"
    /\ step < StepsPerAttempt
    /\ \E returns \in BOOLEAN, dt \in {0, 1} :
          LET now == Min(MaxClock, elapsed + dt)
          IN  IF returns
              THEN /\ step' = step + 1
                   /\ steps_run' = steps_run + 1
                   /\ elapsed' = now
                   /\ main_pc' = IF soft_timeout # <<>> /\ now >= soft_timeout[1]
                                 THEN "exited" ELSE "steps"
              ELSE /\ main_pc' = "panicked"
                   /\ UNCHANGED <<step, steps_run, elapsed>>
    /\ UNCHANGED <<attempts, inserted, soft_timeout>>
    /\ UNCHANGED <<rulesVars, envVars, antVars, colonyVars, segVars, distVars>>

\* lines 129-147: one pass of `for step in 0..50`, a run_colony_step
MainStep ==
    /\ main_pc = "steps"
    /\ step < StepsPerAttempt
    /\ \E returns \in BOOLEAN, dt \in {0, 1} :
          IF returns
          THEN /\ step' = step + 1
               /\ steps_run' = steps_run + 1
               /\ elapsed' = Min(MaxClock, elapsed + dt)
               /\ main_pc' = "steps"
          ELSE /\ main_pc' = "panicked"
               /\ UNCHANGED <<step, steps_run, elapsed>>
    /\ UNCHANGED <<attempts, inserted, soft_timeout>>
    /\ UNCHANGED <<rulesVars, envVars, antVars, colonyVars, segVars, distVars>>

\* lines 151-158: the for loop is over; the attempt is pushed and the soft
\* timeout is tested
AttemptEnd ==
    /\ main_pc = "steps"
    /\ step >= StepsPerAttempt
    /\ \E m \in AttemptMetrics :
          LET new == [id |-> Len(inserted) + 1,
                      edge_value |-> m.edge_value,
                      connectivity_measure |-> m.connectivity_measure,
                      overall_deviation |-> m.overall_deviation]
          IN  /\ inserted' = Append(inserted, new)
              /\ attempts' = ParetoPush(attempts, new)
    /\ main_pc' = IF soft_timeout = <<>> \/ elapsed >= soft_timeout[1]
                  THEN "exited" ELSE "init"
    /\ UNCHANGED <<step, steps_run, soft_timeout, elapsed>>
    /\ UNCHANGED <<rulesVars, envVars, antVars, colonyVars, segVars, distVars>>

NextAttempts == InitializePheromones \/ MainStep \/ AttemptEnd

SpecAttempts == InitAttempts /\ [][NextAttempts]_vars

\* C20: the soft timeout is evaluated only after all 50 colony steps of an
\* attempt have completed, never inside a step or a walk: whenever the loop
\* exits, the number of colony steps executed is a positive multiple of 50,
\* so at least one full attempt always runs, for every timeout setting (none,
\* 0 seconds, or any positive value); without a timeout and with 0 seconds
\* it is exactly one attempt.
C20_TimeoutBetweenAttempts ==
    main_pc = "exited" =>
        /\ step = StepsPerAttempt
        /\ steps_run > 0
        /\ steps_run % StepsPerAttempt = 0
        /\ steps_run = StepsPerAttempt * Len(inserted)
        /\ (soft_timeout = <<>> \/ soft_timeout = <<0>>) => steps_run = StepsPerAttempt

\* C20 witness: the loop has exited after two attempts with a timeout of one
\* second: the second had not elapsed when the first attempt ended and did
\* elapse during the steps of the second attempt.
C20_Witness ==
    /\ main_pc = "exited"
    /\ soft_timeout = <<1>>
    /\ steps_run = 2 * StepsPerAttempt
    /\ Len(attempts) >= 1

(***************************************************************************)
(* color_distances::euclidean_squared (color_distances.rs 3-13).  A colour *)
(* is <<r, g, b>> with u8 channels.  `b - a` on u8 overflows when b < a:   *)
(* a build with overflow checks (debug) panics there, one without          *)
(* (release) wraps modulo 2^8; overflow_checks says which build runs.  A   *)
(* result is [panicked, value]; dist_result is <<>> before the call and    *)
(* <<result>> after it.                                                    *)
(***************************************************************************)
Value(v) == [panicked |-> FALSE, value |-> v]
Panicked == [panicked |-> TRUE, value |-> 0]

\* x - y on u8
SubU8(x, y, checks) ==
    IF x >= y THEN Value(x - y)
    ELSE IF checks THEN Panicked
    ELSE Value((x - y + 2^8) % 2^8)

\* multiply: (x as u16) * (y as u16), as f64
multiply(x, y, checks) ==
    IF x * y < 2^16 THEN Value(x * y)
    ELSE IF checks THEN Panicked
    ELSE Value((x * y) % 2^16)

square(x, checks) == multiply(x, x, checks)

\* line 12: the three differences and squares in turn, the first panic ends it
euclidean_squared(a, b, checks) ==
    LET d == [c \in 1 .. 3 |-> SubU8(b[c], a[c], checks)]
        sq == [c \in 1 .. 3 |->
                  IF d[c].panicked THEN Panicked ELSE square(d[c].value, checks)]
    IN  IF \E c \in 1 .. 3 : sq[c].panicked THEN Panicked
        ELSE Value(sq[1].value + sq[2].value + sq[3].value)

\* channel values from both ends of the u8 range
Shades == (0 .. MaxShades - 1) \cup {2^8 - 1 - k : k \in 0 .. MaxShades - 1}
Colours == Shades \X Shades \X Shades

InitDist ==
    /\ overflow_checks \in BOOLEAN
    /\ dist_a \in Colours /\ dist_b \in Colours
    /\ dist_result = <<>>
    /\ attempts = <<>> /\ inserted = <<>> /\ MainIdle
    /\ RulesIdle /\ EnvIdle /\ AntIdle /\ ColonyIdle /\ SegIdle

CallEuclideanSquared ==
    /\ dist_result = <<>>
    /\ dist_result' = <<euclidean_squared(dist_a, dist_b, overflow_checks)>>
    /\ UNCHANGED <<overflow_checks, dist_a, dist_b>>
    /\ UNCHANGED <<attempts, inserted, main_pc, step, steps_run, soft_timeout, elapsed>>
    /\ UNCHANGED <<rulesVars, envVars, antVars, colonyVars, segVars>>

NextDist == CallEuclideanSquared

SpecDist == InitDist /\ [][NextDist]_vars

\* C21: for all 8-bit RGB colours a and b, euclidean_squared(a, b) equals the
\* sum over the three channels of (b_c - a_c)^2, computed without overflow or
\* wrap-around in the 8-bit and 16-bit intermediate values, and is therefore
\* symmetric: euclidean_squared(a, b) = euclidean_squared(b, a).
C21_SquaredDistanceExact ==
    dist_result # <<>> =>
        /\ dist_result[1] =
              Value(SumSeq([c \in 1 .. 3 |->
                              (dist_b[c] - dist_a[c]) * (dist_b[c] - dist_a[c])]))
        /\ dist_result[1] = euclidean_squared(dist_b, dist_a, overflow_checks)

=============================================================================
